---- MODULE Spec2Model ----
(***************************************************************************)
(* Model of src/pycode.py: the load -> clean -> export pipeline.           *)
(*                                                                         *)
(* A text is a sequence of one-character strings, so that strip, lower,    *)
(* the regular expressions of the duration step and the parsing and        *)
(* formatting of dates are computed character by character.                *)
(* A number is an integer counting sixteenths (90.0 is 1440): medians,     *)
(* linear-interpolation quartiles and the 1.5*IQR fences of integer data   *)
(* are then exact integers, as they are exact binary floats in the code.   *)
(***************************************************************************)
EXTENDS Integers, Sequences, FiniteSets

VARIABLES
    file,       \* the CSV file's content: [cols, rows], every cell a text
    pc,         \* position of the __main__ script
    df,         \* the data frame the running stage works on
    trace,      \* the frames so far: as loaded, then after each cleaning step
    console,    \* the messages printed so far
    files,      \* the output files written
    attempted,  \* the exports whose writing was started
    calls,      \* how many times each stage was entered
    raised      \* the exception in flight or last handled, "none" if none

vars == <<file, pc, df, trace, console, files, attempted, calls, raised>>

----------------------------------------------------------------------------
(* Bounds of the input enumeration *)

\* tables of up to MaxPermuted rows are enumerated in every row order
MaxPermuted == 3
\* longer tables, up to MaxRows rows, are enumerated up to row order
MaxRows == 5

----------------------------------------------------------------------------
(* Characters and texts *)

Range(s) == {s[i] : i \in DOMAIN s}

Digits == <<"0", "1", "2", "3", "4", "5", "6", "7", "8", "9">>

Uppers == <<"A", "B", "C", "D", "E", "F", "G", "H", "I", "J", "K", "L", "M",
            "N", "O", "P", "Q", "R", "S", "T", "U", "V", "W", "X", "Y", "Z">>

Lowers == <<"a", "b", "c", "d", "e", "f", "g", "h", "i", "j", "k", "l", "m",
            "n", "o", "p", "q", "r", "s", "t", "u", "v", "w", "x", "y", "z">>

IsDigit(c) == c \in Range(Digits)

DigitVal(c) == (CHOOSE i \in DOMAIN Digits : Digits[i] = c) - 1

IsSpace(c) == c = " "

\* str.lower() of one character
LowerChar(c) ==
    IF c \in Range(Uppers)
    THEN Lowers[CHOOSE i \in DOMAIN Uppers : Uppers[i] = c]
    ELSE c

\* str.lower()
StrLower(s) == [i \in DOMAIN s |-> LowerChar(s[i])]

\* str.strip(): leading and trailing whitespace removed
StrStrip(s) ==
    LET keep == {i \in DOMAIN s : ~IsSpace(s[i])}
    IN  IF keep = {} THEN <<>>
        ELSE LET lo == CHOOSE i \in keep : \A j \in keep : i <= j
                 hi == CHOOSE i \in keep : \A j \in keep : j <= i
             IN  SubSeq(s, lo, hi)

\* the number a text of digits spells (int(), float() of an integer literal)
ParseInt(s) ==
    LET f[i \in 0..Len(s)] ==
            IF i = 0 THEN 0 ELSE 10 * f[i - 1] + DigitVal(s[i])
    IN  f[Len(s)]

\* n written in decimal with at least w digits, zero padded (%Y, %m, %d)
ZeroPad(n, w) ==
    LET width == IF n >= 1000 THEN 4 ELSE IF n >= 100 THEN 3
                 ELSE IF n >= 10 THEN 2 ELSE 1
        len == IF width > w THEN width ELSE w
        pow[i \in 0..len] == IF i = 0 THEN 1 ELSE 10 * pow[i - 1]
    IN  [i \in 1..len |-> Digits[((n \div pow[len - i]) % 10) + 1]]

\* the first maximal run of s that starts at its first index in hits;
\* <<>> when hits is empty
RunFrom(s, hits) ==
    IF hits = {} THEN <<>>
    ELSE LET lo == CHOOSE i \in hits : \A j \in hits : i <= j
             hi == CHOOSE i \in lo..Len(s) :
                      /\ \A j \in lo..i : j \in hits
                      /\ (i = Len(s) \/ (i + 1) \notin hits)
         IN  SubSeq(s, lo, hi)

\* re.search(r'(\d+)', s): the first maximal run of digits; <<>> is "no match"
FirstDigits(s) == RunFrom(s, {i \in DOMAIN s : IsDigit(s[i])})

\* re.search(r'(\D+)', s): the first maximal run of non-digits
FirstNonDigits(s) == RunFrom(s, {i \in DOMAIN s : ~IsDigit(s[i])})

----------------------------------------------------------------------------
(* Cells of a data frame *)

\* a text cell, a numeric cell (in sixteenths) and the missing value
\* (NaN, None, NaT)
Str(s) == [k |-> "str", s |-> s, v |-> 0]
Num(v) == [k |-> "num", s |-> <<>>, v |-> v]
NaN == [k |-> "nan", s |-> <<>>, v |-> 0]

IsNull(c) == c.k = "nan"

\* sixteenths per unit
Unit == 4 * 4

\* the cells of column col, top to bottom
Column(d, col) == [i \in DOMAIN d.rows |-> d.rows[i][col]]

\* the frame with column col replaced by (or added as) cells, of dtype ty
WithColumn(d, col, ty, cells) ==
    [cols |-> d.cols \cup {col},
     dtype |-> [c \in d.cols \cup {col} |-> IF c = col THEN ty ELSE d.dtype[c]],
     rows |-> [i \in DOMAIN d.rows |->
                  [c \in d.cols \cup {col} |->
                      IF c = col THEN cells[i] ELSE d.rows[i][c]]]]

\* df.drop(col, axis=1)
DropColumn(d, col) ==
    [cols |-> d.cols \ {col},
     dtype |-> [c \in d.cols \ {col} |-> d.dtype[c]],
     rows |-> [i \in DOMAIN d.rows |-> [c \in d.cols \ {col} |-> d.rows[i][c]]]]

\* df.select_dtypes(include=[...]).columns
SelectDtypes(d, include) == {c \in d.cols : d.dtype[c] \in include}

NumericDtypes == {"int64", "float64"}

----------------------------------------------------------------------------
(* load_data: pd.read_csv *)

IsIntegerText(s) == s # <<>> /\ \A i \in DOMAIN s : IsDigit(s[i])

\* The dtype read_csv infers for a column of the file: a column whose fields
\* are all integer literals or empty is numeric (int64, or float64 when a
\* field is empty); any other column, and every column of a file without
\* rows, is object.
InferDtype(f, c) ==
    IF \/ f.rows = <<>>
       \/ \E i \in DOMAIN f.rows :
              f.rows[i][c] # <<>> /\ ~IsIntegerText(f.rows[i][c])
    THEN "object"
    ELSE IF \E i \in DOMAIN f.rows : f.rows[i][c] = <<>>
         THEN "float64" ELSE "int64"

\* pd.read_csv(file_path): an empty field is missing
ReadCsv(f) ==
    [cols |-> f.cols,
     dtype |-> [c \in f.cols |-> InferDtype(f, c)],
     rows |-> [i \in DOMAIN f.rows |->
                  [c \in f.cols |->
                      IF f.rows[i][c] = <<>> THEN NaN
                      ELSE IF InferDtype(f, c) = "object"
                           THEN Str(f.rows[i][c])
                           ELSE Num(Unit * ParseInt(f.rows[i][c]))]]]

----------------------------------------------------------------------------
(* Order statistics: Series.median, Series.quantile *)

\* the values of the non-missing cells, in column order
Present(cells) ==
    LET kept == SelectSeq(cells, LAMBDA c : ~IsNull(c))
    IN  [i \in DOMAIN kept |-> kept[i].v]

\* the values in ascending order
SortAsc(vals) ==
    [k \in DOMAIN vals |->
        CHOOSE v \in Range(vals) :
            /\ Cardinality({i \in DOMAIN vals : vals[i] < v}) < k
            /\ k <= Cardinality({i \in DOMAIN vals : vals[i] <= v})]

\* Series.median(): missing cells skipped; missing when none is present
Median(cells) ==
    LET s == SortAsc(Present(cells))
        n == Len(s)
    IN  IF n = 0 THEN NaN
        ELSE IF n % 2 = 1 THEN Num(s[(n + 1) \div 2])
        ELSE Num((s[n \div 2] + s[(n \div 2) + 1]) \div 2)

\* Series.quantile(quarters / 4), interpolation 'linear': missing cells
\* skipped, the value at the fractional position (n - 1) * quarters / 4
Quantile(cells, quarters) ==
    LET s == SortAsc(Present(cells))
        n == Len(s)
        pos == (n - 1) * quarters
        k == pos \div 4
        r == pos % 4
    IN  IF n = 0 THEN NaN
        ELSE IF r = 0 THEN Num(s[k + 1])
        ELSE Num(s[k + 1] + (r * (s[k + 2] - s[k + 1])) \div 4)

\* faulty variant of Clip that forgets the lower threshold
ClipUpperOnly(c, lower, upper) ==
    IF IsNull(c) THEN c
    ELSE IF ~IsNull(upper) /\ c.v > upper.v THEN upper
    ELSE c

\* faulty variant of Clip that forgets the upper threshold
ClipLowerOnly(c, lower, upper) ==
    IF IsNull(c) THEN c
    ELSE IF ~IsNull(lower) /\ c.v < lower.v THEN lower
    ELSE c

\* Series.clip(lower, upper): a missing cell stays missing; a missing
\* threshold does not bound
Clip(c, lower, upper) ==
    IF IsNull(c) THEN c
    ELSE IF ~IsNull(lower) /\ c.v < lower.v THEN lower
    ELSE IF ~IsNull(upper) /\ c.v > upper.v THEN upper
    ELSE c

\* lower_bound = Q1 - 1.5 * IQR of a column
LowerBound(cells) ==
    LET Q1 == Quantile(cells, 1)
        Q3 == Quantile(cells, 3)
    IN  IF IsNull(Q1) THEN NaN
        ELSE Num(Q1.v - (3 * (Q3.v - Q1.v)) \div 2)

\* upper_bound = Q3 + 1.5 * IQR of a column
UpperBound(cells) ==
    LET Q1 == Quantile(cells, 1)
        Q3 == Quantile(cells, 3)
    IN  IF IsNull(Q3) THEN NaN
        ELSE Num(Q3.v + (3 * (Q3.v - Q1.v)) \div 2)

\* handle_outliers(df, numeric_cols): every listed column clipped to its own
\* fences; the columns are independent, so the loop is one simultaneous map
handle_outliers(d, numeric_cols) ==
    LET lower == [c \in numeric_cols |-> LowerBound(Column(d, c))]
        upper == [c \in numeric_cols |-> UpperBound(Column(d, c))]
    IN  [cols |-> d.cols,
         dtype |-> [c \in d.cols |->
                      IF c \in numeric_cols /\ d.rows # <<>>
                      THEN "float64" ELSE d.dtype[c]],
         rows |-> [i \in DOMAIN d.rows |->
                     [c \in d.cols |->
                         IF c \in numeric_cols
                         THEN Clip(d.rows[i][c], lower[c], upper[c])
                         ELSE d.rows[i][c]]]]

----------------------------------------------------------------------------
(* Dates: pd.to_datetime(errors='coerce') and strftime('%Y-%m-%d') *)

IsLeap(y) == (y % 4 = 0 /\ y % 100 # 0) \/ y % 400 = 0

DaysInMonth(y, m) ==
    IF m = 2 THEN (IF IsLeap(y) THEN 29 ELSE 28)
    ELSE IF m \in {4, 6, 9, 11} THEN 30 ELSE 31

NaT == [ok |-> FALSE, y |-> 0, m |-> 0, d |-> 0]

\* pd.to_datetime of one text, for the texts of the enumerated files: a
\* calendar date written YYYY-MM-DD parses, everything else (the empty
\* text, 'nan', 'unknown', a day that does not exist) is coerced to NaT
ToDatetime(s) ==
    IF /\ Len(s) = 10
       /\ s[5] = "-" /\ s[8] = "-"
       /\ \A i \in {1, 2, 3, 4, 6, 7, 9, 10} : IsDigit(s[i])
    THEN LET y == ParseInt(SubSeq(s, 1, 4))
             m == ParseInt(SubSeq(s, 6, 7))
             d == ParseInt(SubSeq(s, 9, 10))
         IN  IF m \in 1..12 /\ d >= 1 /\ d <= DaysInMonth(y, m)
             THEN [ok |-> TRUE, y |-> y, m |-> m, d |-> d]
             ELSE NaT
    ELSE NaT

\* faulty variant of Strftime: x.strftime('%Y-%d-%m')
StrftimeDayFirst(ts) ==
    ZeroPad(ts.y, 4) \o <<"-">> \o ZeroPad(ts.d, 2) \o <<"-">> \o ZeroPad(ts.m, 2)

\* x.strftime('%Y-%m-%d')
Strftime(ts) ==
    ZeroPad(ts.y, 4) \o <<"-">> \o ZeroPad(ts.m, 2) \o <<"-">> \o ZeroPad(ts.d, 2)

\* Series.astype(str) of one cell: the missing value reads 'nan'
AsStr(c) == IF IsNull(c) THEN <<"n", "a", "n">> ELSE c.s

----------------------------------------------------------------------------
(* clean_data, step by step *)

\* Series.mean(): missing cells skipped
Mean(cells) ==
    LET vals == Present(cells)
        sum[i \in 0..Len(vals)] == IF i = 0 THEN 0 ELSE sum[i - 1] + vals[i]
    IN  IF Len(vals) = 0 THEN NaN ELSE Num(sum[Len(vals)] \div Len(vals))

\* faulty variant of HandleMissing: numeric columns filled with the mean
HandleMissingMean(d) ==
    LET fill == [c \in d.cols |->
                    IF d.dtype[c] = "object"
                    THEN Str(<<"U", "n", "k", "n", "o", "w", "n">>)
                    ELSE IF d.dtype[c] \in NumericDtypes
                         THEN Mean(Column(d, c))
                         ELSE NaN]
    IN  [cols |-> d.cols,
         dtype |-> d.dtype,
         rows |-> [i \in DOMAIN d.rows |->
                     [c \in d.cols |->
                         IF IsNull(d.rows[i][c]) THEN fill[c]
                         ELSE d.rows[i][c]]]]

\* 1. Handle missing values: 'Unknown' in object columns, the column's
\*    median in int64 and float64 columns
HandleMissing(d) ==
    LET fill == [c \in d.cols |->
                    IF d.dtype[c] = "object"
                    THEN Str(<<"U", "n", "k", "n", "o", "w", "n">>)
                    ELSE IF d.dtype[c] \in NumericDtypes
                         THEN Median(Column(d, c))
                         ELSE NaN]
    IN  [cols |-> d.cols,
         dtype |-> d.dtype,
         rows |-> [i \in DOMAIN d.rows |->
                     [c \in d.cols |->
                         IF IsNull(d.rows[i][c]) THEN fill[c]
                         ELSE d.rows[i][c]]]]

\* 2. Clean and standardize text columns: .str.strip().str.lower()
StandardizeText(d) ==
    LET text_cols == SelectDtypes(d, {"object"})
    IN  [cols |-> d.cols,
         dtype |-> d.dtype,
         rows |-> [i \in DOMAIN d.rows |->
                     [c \in d.cols |->
                         IF c \in text_cols /\ ~IsNull(d.rows[i][c])
                         THEN Str(StrLower(StrStrip(d.rows[i][c].s)))
                         ELSE d.rows[i][c]]]]

\* the date_added texts of step 3: astype(str), strip, to_datetime, then
\* strftime for a date and '' for NaT
FormatDates(cells) ==
    [i \in DOMAIN cells |->
        LET ts == ToDatetime(StrStrip(AsStr(cells[i])))
        IN  Str(IF ts.ok THEN Strftime(ts) ELSE <<>>)]

\* pd.to_datetime(df['date_added'], errors='coerce').dt.year
YearOf(cells) ==
    [i \in DOMAIN cells |->
        LET ts == ToDatetime(cells[i].s)
        IN  IF ts.ok THEN Num(Unit * ts.y) ELSE NaN]

\* pd.to_datetime(df['date_added'], errors='coerce').dt.month
MonthOf(cells) ==
    [i \in DOMAIN cells |->
        LET ts == ToDatetime(cells[i].s)
        IN  IF ts.ok THEN Num(Unit * ts.m) ELSE NaN]

\* The dtypes .dt.year can have: float64 as soon as one date is NaT,
\* otherwise the integer dtype of the installed pandas (int32 from 2.0 on,
\* int64 before)
FieldDtypes(cells) ==
    IF \E i \in DOMAIN cells : IsNull(cells[i])
    THEN {"float64"} ELSE {"int32", "int64"}

\* 3. Handle dates, when a date_added column exists; ty is the dtype of
\*    the two derived columns
HandleDates(d, ty) ==
    IF "date_added" \in d.cols
    THEN LET dates == FormatDates(Column(d, "date_added"))
             d1 == WithColumn(d, "date_added", "object", dates)
             d2 == WithColumn(d1, "year_added", ty, YearOf(dates))
         IN  WithColumn(d2, "month_added", ty, MonthOf(dates))
    ELSE d

\* faulty variant of DurationValue: a value without digits counts as 0.0
DurationValueZero(cells) ==
    [i \in DOMAIN cells |->
        LET run == IF IsNull(cells[i]) THEN <<>> ELSE FirstDigits(cells[i].s)
        IN  IF run = <<>> THEN Num(0) ELSE Num(Unit * ParseInt(run))]

\* df['duration'].str.extract(r'(\d+)').astype(float)
DurationValue(cells) ==
    [i \in DOMAIN cells |->
        LET run == IF IsNull(cells[i]) THEN <<>> ELSE FirstDigits(cells[i].s)
        IN  IF run = <<>> THEN NaN ELSE Num(Unit * ParseInt(run))]

\* faulty variant of DurationUnit: the extracted unit is stripped
DurationUnitStripped(cells) ==
    [i \in DOMAIN cells |->
        LET run == IF IsNull(cells[i]) THEN <<>>
                   ELSE StrStrip(FirstNonDigits(cells[i].s))
        IN  IF run = <<>> THEN Str(<<"m", "i", "n">>) ELSE Str(run)]

\* df['duration'].str.extract(r'(\D+)').fillna('min')
DurationUnit(cells) ==
    [i \in DOMAIN cells |->
        LET run == IF IsNull(cells[i]) THEN <<>>
                   ELSE FirstNonDigits(cells[i].s)
        IN  IF run = <<>> THEN Str(<<"m", "i", "n">>) ELSE Str(run)]

\* the .str accessor raises AttributeError on a column that is not text
DurationRaises(d) == "duration" \in d.cols /\ d.dtype["duration"] # "object"

\* 4. Handle duration column, when it exists (and is text)
HandleDuration(d) ==
    IF "duration" \in d.cols
    THEN LET cells == Column(d, "duration")
             d1 == WithColumn(d, "duration_value", "float64",
                              DurationValue(cells))
             d2 == WithColumn(d1, "duration_unit", "object",
                              DurationUnit(cells))
         IN  DropColumn(d2, "duration")
    ELSE d

\* faulty variant of DropDuplicates: drop_duplicates(keep='last')
DropDuplicatesKeepLast(d) ==
    LET kept == {i \in DOMAIN d.rows :
                    \A j \in (i + 1)..Len(d.rows) : d.rows[j] # d.rows[i]}
        nth(k) == CHOOSE i \in kept : Cardinality({j \in kept : j <= i}) = k
    IN  [cols |-> d.cols,
         dtype |-> d.dtype,
         rows |-> [k \in 1..Cardinality(kept) |-> d.rows[nth(k)]]]

\* 5. df.drop_duplicates(): a row equal in every column to an earlier row is
\*    dropped (missing equals missing), the others keep their order
DropDuplicates(d) ==
    LET kept == {i \in DOMAIN d.rows : \A j \in 1..(i - 1) : d.rows[j] # d.rows[i]}
        nth(k) == CHOOSE i \in kept : Cardinality({j \in kept : j <= i}) = k
    IN  [cols |-> d.cols,
         dtype |-> d.dtype,
         rows |-> [k \in 1..Cardinality(kept) |-> d.rows[nth(k)]]]

\* 6. the numeric columns handle_outliers is given
NumericCols(d) == SelectDtypes(d, NumericDtypes)

----------------------------------------------------------------------------
(* save_cleaned_data *)

\* df.head(100)
SampleRows == 100

HeadRows(rows, n) == SubSeq(rows, 1, IF Len(rows) < n THEN Len(rows) ELSE n)

\* df['date_added'] = pd.to_datetime(df['date_added'], errors='coerce'):
\* the caller's frame is changed, '' becomes NaT
DatesToDatetime(d) ==
    IF "date_added" \in d.cols
    THEN WithColumn(d, "date_added", "datetime64[ns]",
                    [i \in DOMAIN d.rows |->
                        IF ToDatetime(AsStr(d.rows[i]["date_added"])).ok
                        THEN d.rows[i]["date_added"] ELSE NaN])
    ELSE d

----------------------------------------------------------------------------
(* The CSV files the runs read *)

\* date_added fields: three dates of 2020 (one a leap day, one padded with
\* blanks), a date of 2010, a day that does not exist, a word, an empty field
DateTexts ==
    << <<"2", "0", "2", "0", "-", "0", "2", "-", "2", "9">>,  \* "2020-02-29"
       <<"2", "0", "2", "0", "-", "1", "1", "-", "0", "5">>,  \* "2020-11-05"
       <<" ", "2", "0", "2", "0", "-", "1", "1", "-", "0", "6", " ">>,  \* " 2020-11-06 "
       <<"2", "0", "1", "0", "-", "1", "1", "-", "0", "5">>,  \* "2010-11-05"
       <<"2", "0", "1", "9", "-", "0", "2", "-", "2", "9">>,  \* "2019-02-29"
       <<"S", "o", "o", "n">>,  \* "Soon"
       <<>> >>

\* duration fields: minutes, seasons, a bare number, a unit before and after
\* two numbers, a blank field, an empty field
DurationTexts ==
    << <<"9", "0", " ", "m", "i", "n">>,  \* "90 min"
       <<"3", " ", "S", "e", "a", "s", "o", "n", "s">>,  \* "3 Seasons"
       <<"9", "0">>,  \* "90"
       <<"1", "h", " ", "3", "0", "m">>,  \* "1h 30m"
       <<" ">>,  \* " "
       <<>> >>

TitleTexts == << <<" ", "T", "h", "e", " ", "C", "r", "o", "w", "n">>, <<"d", "a", "r", "k">>, <<>> >>

YearTexts == << <<"2", "0", "0", "0">>, <<"2", "0", "1", "0">>, <<>> >>

DateRows == [i \in DOMAIN DateTexts |-> [date_added |-> DateTexts[i]]]

DurationRows == [i \in DOMAIN DurationTexts |-> [duration |-> DurationTexts[i]]]

TitleYearRows ==
    [i \in 1..(Len(TitleTexts) * Len(YearTexts)) |->
        [title |-> TitleTexts[((i - 1) \div Len(YearTexts)) + 1],
         release_year |-> YearTexts[((i - 1) % Len(YearTexts)) + 1]]]

\* rows with every column the cleaning looks at
CatalogRows ==
    [i \in 1..8 |->
        [date_added |-> DateTexts[IF (i - 1) \div 4 = 0 THEN 1 ELSE 6],
         duration |-> DurationTexts[IF ((i - 1) \div 2) % 2 = 0 THEN 1 ELSE 2],
         release_year |-> YearTexts[((i - 1) % 2) + 1]]]

\* the row choices of a table over k rows: every sequence of up to
\* MaxPermuted choices, and the non-decreasing sequences of up to MaxRows
IndexSeqs(k) ==
    (UNION {[1..m -> 1..k] : m \in 0..MaxPermuted})
    \cup
    (UNION {{f \in [1..m -> 1..k] : \A i \in 1..(m - 1) : f[i] <= f[i + 1]} :
                m \in (MaxPermuted + 1)..MaxRows})

Tables(cols, rowSeq) ==
    {[cols |-> cols, rows |-> [i \in DOMAIN f |-> rowSeq[f[i]]]] :
        f \in IndexSeqs(Len(rowSeq))}

InputFiles ==
    Tables({"date_added"}, DateRows)
    \cup Tables({"duration"}, DurationRows)
    \cup Tables({"title", "release_year"}, TitleYearRows)
    \cup Tables({"date_added", "duration", "release_year"}, CatalogRows)

NoFrame == [cols |-> {}, dtype |-> <<>>, rows |-> <<>>]

----------------------------------------------------------------------------
(* The __main__ script *)

Init ==
    /\ file \in InputFiles
    /\ pc = "main"
    /\ df = NoFrame
    /\ trace = <<>>
    /\ console = <<>>
    /\ files = {}
    /\ attempted = {}
    /\ calls = [load |-> 0, clean |-> 0, save |-> 0]
    /\ raised = "none"

\* load_data returns the frame; the script goes on to clean_data
LoadData ==
    /\ pc = "main"
    /\ df' = ReadCsv(file)
    /\ trace' = <<ReadCsv(file)>>
    /\ console' = console \o <<"Starting data processing...",
                               "Initial data shape", "Loaded rows",
                               "Cleaning data...">>
    /\ calls' = [calls EXCEPT !.load = @ + 1]
    /\ pc' = "step1"
    /\ UNCHANGED <<file, files, attempted, raised>>

\* load_data raises FileNotFoundError: there is no file at file_path
LoadDataNotFound ==
    /\ pc = "main"
    /\ console' = console \o <<"Starting data processing...">>
    /\ calls' = [calls EXCEPT !.load = @ + 1]
    /\ raised' = "FileNotFoundError"
    /\ pc' = "except"
    /\ UNCHANGED <<file, df, trace, files, attempted>>

\* load_data raises Exception('Error loading data: ...'): any other failure
\* of read_csv
LoadDataError ==
    /\ pc = "main"
    /\ console' = console \o <<"Starting data processing...">>
    /\ calls' = [calls EXCEPT !.load = @ + 1]
    /\ raised' = "Exception"
    /\ pc' = "except"
    /\ UNCHANGED <<file, df, trace, files, attempted>>

\* a cleaning step that cannot raise: the frame becomes result
CleanStep(here, next, result, message) ==
    /\ pc = here
    /\ df' = result
    /\ trace' = Append(trace, result)
    /\ console' = console \o message
    /\ pc' = next
    /\ UNCHANGED <<file, files, attempted, raised>>

\* clean_data is entered (df.copy()) and does step 1
Step1 ==
    /\ CleanStep("step1", "step2", HandleMissing(df),
                 <<"Starting data cleaning process...", "Missing values handled">>)
    /\ calls' = [calls EXCEPT !.clean = @ + 1]

Step2 ==
    /\ CleanStep("step2", "step3", StandardizeText(df), <<"Text standardized">>)
    /\ UNCHANGED calls

Step3 ==
    /\ \E ty \in (IF "date_added" \in df.cols
                  THEN FieldDtypes(YearOf(FormatDates(Column(df, "date_added"))))
                  ELSE {"none"}) :
          CleanStep("step3", "step4", HandleDates(df, ty),
                    IF "date_added" \in df.cols
                    THEN <<"Dates processed successfully.">> ELSE <<>>)
    /\ UNCHANGED calls

\* step 4; on a duration column that is not text the .str accessor raises and
\* clean_data is left with the exception
Step4 ==
    /\ pc = "step4"
    /\ IF DurationRaises(df)
       THEN /\ raised' = "AttributeError"
            /\ pc' = "except"
            /\ UNCHANGED <<df, trace, console>>
       ELSE /\ df' = HandleDuration(df)
            /\ trace' = Append(trace, HandleDuration(df))
            /\ console' = Append(console, "Duration standardized")
            /\ pc' = "step5"
            /\ UNCHANGED raised
    /\ UNCHANGED <<file, files, attempted, calls>>

Step5 ==
    /\ CleanStep("step5", "step6", DropDuplicates(df), <<"Duplicates removed">>)
    /\ UNCHANGED calls

\* step 6, and clean_data returns to the script, which prints the shape
Step6 ==
    /\ CleanStep("step6", "save", handle_outliers(df, NumericCols(df)),
                 <<"Outliers handled", "Cleaned data shape">>)
    /\ UNCHANGED calls

\* save_cleaned_data is entered and writes the full table
WriteFull ==
    /\ pc = "save"
    /\ df' = DatesToDatetime(df)
    /\ attempted' = attempted \cup {"full"}
    /\ files' = files \cup {[name |-> "full", rows |-> DatesToDatetime(df).rows]}
    /\ console' = Append(console, "Cleaned data saved")
    /\ calls' = [calls EXCEPT !.save = @ + 1]
    /\ pc' = "sample"
    /\ UNCHANGED <<file, trace, raised>>

\* writing the full table raises: control leaves the try block
WriteFullFails ==
    /\ pc = "save"
    /\ df' = DatesToDatetime(df)
    /\ attempted' = attempted \cup {"full"}
    /\ calls' = [calls EXCEPT !.save = @ + 1]
    /\ raised' = "Exception"
    /\ pc' = "save_except"
    /\ UNCHANGED <<file, trace, console, files>>

\* the sample, df.head(100), is written in the same try block
WriteSample ==
    /\ pc = "sample"
    /\ attempted' = attempted \cup {"sample"}
    /\ files' = files \cup {[name |-> "sample", rows |-> HeadRows(df.rows, SampleRows)]}
    /\ console' = Append(console, "Sample data saved")
    /\ pc' = "done"
    /\ UNCHANGED <<file, df, trace, calls, raised>>

WriteSampleFails ==
    /\ pc = "sample"
    /\ attempted' = attempted \cup {"sample"}
    /\ raised' = "Exception"
    /\ pc' = "save_except"
    /\ UNCHANGED <<file, df, trace, console, files, calls>>

\* faulty variant of SaveExcept: the handler prints and re-raises
SaveExceptReraises ==
    /\ pc = "save_except"
    /\ console' = Append(console, "Error saving data")
    /\ pc' = "except"
    /\ UNCHANGED <<file, df, trace, files, attempted, calls, raised>>

\* except Exception in save_cleaned_data: the error is printed and the
\* function returns normally
SaveExcept ==
    /\ pc = "save_except"
    /\ console' = Append(console, "Error saving data")
    /\ pc' = "done"
    /\ UNCHANGED <<file, df, trace, files, attempted, calls, raised>>

\* except Exception in __main__: the error of load_data or clean_data is
\* printed and the script ends
MainExcept ==
    /\ pc = "except"
    /\ console' = Append(console, "Error occurred")
    /\ pc' = "aborted"
    /\ UNCHANGED <<file, df, trace, files, attempted, calls, raised>>

Next ==
    \/ LoadData
    \/ LoadDataNotFound
    \/ LoadDataError
    \/ Step1
    \/ Step2
    \/ Step3
    \/ Step4
    \/ Step5
    \/ Step6
    \/ WriteFull
    \/ WriteFullFails
    \/ WriteSample
    \/ WriteSampleFails
    \/ SaveExcept
    \/ MainExcept

Spec == Init /\ [][Next]_vars

----------------------------------------------------------------------------
(* The frames of a run *)

\* clean_data has just completed step k: the script stands before the next
\* step (before save_cleaned_data after step 6) and trace ends with the
\* frame that step k produced
Did(k) == pc = <<"step2", "step3", "step4", "step5", "step6", "save">>[k]

\* the frame as loaded, and as it stood after step k
Loaded == trace[1]
After(k) == trace[k + 1]

\* clean_data has returned: the returned frame is After(6)
Returned == Len(trace) = 7

Count(seq, x) == Cardinality({i \in DOMAIN seq : seq[i] = x})

HasDigit(s) == \E i \in DOMAIN s : IsDigit(s[i])

----------------------------------------------------------------------------
(* C1: outlier clipping *)

----------------------------------------------------------------------------
(* C2: deduplication *)

FirstIndex(rows, r) == CHOOSE i \in DOMAIN rows : rows[i] = r /\ \A j \in 1..(i - 1) : rows[j] # r

\* C2: right after step 5 no two rows are equal in all columns, every
\* distinct row of the table before the step appears exactly once, and the
\* surviving rows are in the order of their first occurrence before the step.
C2_Deduplicated ==
    Did(5) =>
        LET before == After(4).rows
            after == After(5).rows
        IN  /\ \A i, j \in DOMAIN after : i # j => after[i] # after[j]
            /\ Range(after) = Range(before)
            /\ \A i, j \in DOMAIN after :
                  i < j => FirstIndex(before, after[i]) < FirstIndex(before, after[j])
            /\ After(5).cols = After(4).cols

\* a run in which step 5 dropped a repeated row and kept at least two rows
C2_Witness ==
    /\ Did(5)
    /\ Len(After(5).rows) < Len(After(4).rows)
    /\ Len(After(5).rows) >= 2
    /\ After(4).rows[1] = After(4).rows[3]

----------------------------------------------------------------------------
(* C3: export error isolation *)

\* C3: an error while writing one of the two output files is caught and
\* logged for that export only, never reaches the caller, and does not keep
\* the other export from being attempted: when the function has returned,
\* both the full file and the sample were attempted.
C3_ExportsIsolated ==
    /\ (pc = "done" => attempted = {"full", "sample"})
    /\ (attempted # {} => pc \notin {"except", "aborted"})

----------------------------------------------------------------------------
(* C4: pipeline ordering and abort *)

\* C4: the stages run at most once each in the order load, clean, save; when
\* load_data or clean_data raises, the run aborts with exactly one error
\* message, no later stage starts, no output file is written and nothing is
\* retried; an export failure never makes the run an aborted one.
C4_OrderAndAbort ==
    /\ calls.load <= 1 /\ calls.clean <= calls.load /\ calls.save <= calls.clean
    /\ calls.save = 1 => Returned
    /\ pc \in {"except", "aborted"} =>
          /\ calls.save = 0 /\ files = {} /\ attempted = {}
          /\ raised \in {"FileNotFoundError", "Exception"} => calls.clean = 0
          /\ Count(console, "Error occurred") = (IF pc = "aborted" THEN 1 ELSE 0)
          /\ Count(console, "Error saving data") = 0
    /\ pc \notin {"except", "aborted"} => Count(console, "Error occurred") = 0
    /\ attempted # {} => pc \in {"sample", "save_except", "done"}
    /\ pc = "done" => Count(console, "Error saving data") <= 1

\* a run that clean_data aborted, with its one message printed
C4_Witness ==
    /\ pc = "aborted"
    /\ raised = "AttributeError"
    /\ calls = [load |-> 1, clean |-> 1, save |-> 0]

----------------------------------------------------------------------------
(* C5: duration decomposition of a value with digits *)

T90min == <<"9", "0", " ", "m", "i", "n">>
T3Seasons == <<"3", " ", "S", "e", "a", "s", "o", "n", "s">>
Tmin == <<"m", "i", "n">>
TSpaceMin == <<" ", "m", "i", "n">>
TSpaceSeasons == <<" ", "s", "e", "a", "s", "o", "n", "s">>
TUnknown == <<"u", "n", "k", "n", "o", "w", "n">>

\* C5 as stated: "90 min" yields 90.0 and "min", "3 Seasons" yields 3.0 and
\* " seasons"; the duration column is gone.
C5_AsStated ==
    Did(4) /\ "duration" \in Loaded.cols =>
        /\ "duration" \notin After(4).cols
        /\ \A i \in DOMAIN Loaded.rows :
              /\ Loaded.rows[i].duration = Str(T90min) =>
                    /\ After(4).rows[i].duration_value = Num(90 * Unit)
                    /\ After(4).rows[i].duration_unit = Str(Tmin)
              /\ Loaded.rows[i].duration = Str(T3Seasons) =>
                    /\ After(4).rows[i].duration_value = Num(3 * Unit)
                    /\ After(4).rows[i].duration_unit = Str(TSpaceSeasons)

\* s[lo..hi] is the first maximal run of digits of s
IsFirstDigitRun(s, lo, hi) ==
    /\ lo <= hi
    /\ \A k \in lo..hi : IsDigit(s[k])
    /\ \A k \in 1..(lo - 1) : ~IsDigit(s[k])
    /\ (hi = Len(s) \/ ~IsDigit(s[hi + 1]))

\* s[lo..hi] is the first maximal run of non-digits of s
IsFirstUnitRun(s, lo, hi) ==
    /\ lo <= hi
    /\ \A k \in lo..hi : ~IsDigit(s[k])
    /\ \A k \in 1..(lo - 1) : IsDigit(s[k])
    /\ (hi = Len(s) \/ IsDigit(s[hi + 1]))

\* C5 as amended: of a value with digits, as it stands after steps 1-2, the
\* first maximal run of digits becomes the float duration_value and the
\* first maximal run of non-digits becomes duration_unit ("min" when the
\* value has none); "90 min" yields 90.0 and " min", "3 Seasons" yields 3.0
\* and " seasons"; the duration column is gone.
C5_FirstRuns ==
    Did(4) /\ "duration" \in Loaded.cols =>
        /\ "duration" \notin After(4).cols
        /\ \A i \in DOMAIN After(2).rows :
              LET s == After(2).rows[i].duration.s
                  value == After(4).rows[i].duration_value
                  unit == After(4).rows[i].duration_unit
              IN  HasDigit(s) =>
                    /\ \E lo, hi \in DOMAIN s :
                          /\ IsFirstDigitRun(s, lo, hi)
                          /\ value = Num(Unit * ParseInt(SubSeq(s, lo, hi)))
                    /\ IF \E k \in DOMAIN s : ~IsDigit(s[k])
                       THEN \E lo, hi \in DOMAIN s :
                               /\ IsFirstUnitRun(s, lo, hi)
                               /\ unit = Str(SubSeq(s, lo, hi))
                       ELSE unit = Str(Tmin)
        /\ \A i \in DOMAIN Loaded.rows :
              /\ Loaded.rows[i].duration = Str(T90min) =>
                    /\ After(4).rows[i].duration_value = Num(90 * Unit)
                    /\ After(4).rows[i].duration_unit = Str(TSpaceMin)
              /\ Loaded.rows[i].duration = Str(T3Seasons) =>
                    /\ After(4).rows[i].duration_value = Num(3 * Unit)
                    /\ After(4).rows[i].duration_unit = Str(TSpaceSeasons)

\* a run that decomposed "90 min", "3 Seasons" and a value with two numbers
C5_Witness ==
    /\ Did(4) /\ "duration" \in Loaded.cols
    /\ \E i, j, k \in DOMAIN Loaded.rows :
          /\ Loaded.rows[i].duration = Str(T90min)
          /\ Loaded.rows[j].duration = Str(T3Seasons)
          /\ After(4).rows[k].duration_value = Num(Unit)

----------------------------------------------------------------------------
(* C6: duration decomposition of a value without digits *)

\* C6 as stated: a row whose duration has no digit, a row whose duration was
\* missing included, gets a null duration_value and duration_unit "min".
C6_AsStated ==
    Did(4) /\ "duration" \in Loaded.cols =>
        \A i \in DOMAIN After(2).rows :
            ~HasDigit(After(2).rows[i].duration.s) =>
                /\ IsNull(After(4).rows[i].duration_value)
                /\ After(4).rows[i].duration_unit = Str(Tmin)

\* C6 as amended: a row whose duration has no digit gets a null
\* duration_value, and as duration_unit the value itself as it stands after
\* steps 1-2 ("unknown" for a row whose duration was missing), "min" only
\* when that value is empty.
C6_UnitIsTheValue ==
    Did(4) /\ "duration" \in Loaded.cols =>
        \A i \in DOMAIN After(2).rows :
            LET s == After(2).rows[i].duration.s
            IN  ~HasDigit(s) =>
                  /\ IsNull(After(4).rows[i].duration_value)
                  /\ After(4).rows[i].duration_unit =
                        (IF s = <<>> THEN Str(Tmin) ELSE Str(s))
                  /\ IsNull(Loaded.rows[i].duration) =>
                        After(4).rows[i].duration_unit = Str(TUnknown)

\* a run with a missing duration and a blank one
C6_Witness ==
    /\ Did(4) /\ "duration" \in Loaded.cols
    /\ \E i, j \in DOMAIN Loaded.rows :
          /\ IsNull(Loaded.rows[i].duration)
          /\ After(4).rows[i].duration_unit = Str(TUnknown)
          /\ After(2).rows[j].duration.s = <<>>
          /\ After(4).rows[j].duration_unit = Str(Tmin)

----------------------------------------------------------------------------
(* C7: date normalization *)

\* the text YYYY-MM-DD of a date, digit by digit
IsoText(y, m, d) ==
    << Digits[((y \div 1000) % 10) + 1], Digits[((y \div 100) % 10) + 1],
       Digits[((y \div 10) % 10) + 1], Digits[(y % 10) + 1], "-",
       Digits[(m \div 10) + 1], Digits[(m % 10) + 1], "-",
       Digits[(d \div 10) + 1], Digits[(d % 10) + 1] >>

\* s is YYYY-MM-DD and names a day of the calendar
ValidIsoDate(s) ==
    /\ Len(s) = 10
    /\ \A i \in 1..4 : IsDigit(s[i])
    /\ \E m \in 1..12 : \E d \in 1..31 :
          /\ d <= DaysInMonth(ParseInt(SubSeq(s, 1, 4)), m)
          /\ s = IsoText(ParseInt(SubSeq(s, 1, 4)), m, d)

----------------------------------------------------------------------------
(* C8: missing-value imputation *)

\* x is the r-th smallest of vals
IsOrderStat(vals, r, x) ==
    /\ Cardinality({i \in DOMAIN vals : vals[i] < x}) < r
    /\ r <= Cardinality({i \in DOMAIN vals : vals[i] <= x})

\* C8: after text normalization a cell of a text column that was missing in
\* the loaded table holds "unknown"; a cell of a numeric column that was
\* missing holds the median of the column's values present at load; a cell
\* of a numeric column that was present is unchanged by step 1; no cell of a
\* text column, or of a numeric column with a present value, is missing
\* after step 1.
C8_Imputed ==
    Did(2) =>
        \A c \in Loaded.cols : \A i \in DOMAIN Loaded.rows :
            LET was == Loaded.rows[i][c]
                vals == Present(Column(Loaded, c))
                n == Len(vals)
            IN  IF Loaded.dtype[c] = "object"
                THEN /\ ~IsNull(After(1).rows[i][c])
                     /\ IsNull(was) => After(2).rows[i][c] = Str(TUnknown)
                ELSE /\ ~IsNull(was) => After(1).rows[i][c] = was
                     /\ n > 0 => ~IsNull(After(1).rows[i][c])
                     /\ IsNull(was) /\ n > 0 =>
                           \E a, b \in Range(vals) :
                               /\ IsOrderStat(vals, (n + 1) \div 2, a)
                               /\ IsOrderStat(vals, (n \div 2) + 1, b)
                               /\ 2 * After(1).rows[i][c].v = a + b

\* a run with a missing title, and a missing release_year beside three
\* present ones of which two are equal
C8_Witness ==
    /\ Did(2) /\ Loaded.cols = {"title", "release_year"}
    /\ \E i, j \in DOMAIN Loaded.rows :
          /\ IsNull(Loaded.rows[i].title)
          /\ IsNull(Loaded.rows[j].release_year)
    /\ Len(Present(Column(Loaded, "release_year"))) = 3
    /\ Cardinality(Range(Present(Column(Loaded, "release_year")))) = 2

----------------------------------------------------------------------------
(* C9: derived date columns in the returned table *)

\* C9: in the table clean_data returns, a row with a non-empty date_added
\* has the year and the month of that text as year_added and month_added,
\* and a row with an empty date_added has both null.
C9_DerivedMatchDate ==
    Did(6) /\ "date_added" \in After(6).cols =>
        \A i \in DOMAIN After(6).rows :
            LET r == After(6).rows[i]
            IN  IF r.date_added.s # <<>>
                THEN /\ r.year_added = Num(Unit * ParseInt(SubSeq(r.date_added.s, 1, 4)))
                     /\ r.month_added = Num(Unit * ParseInt(SubSeq(r.date_added.s, 6, 7)))
                ELSE IsNull(r.year_added) /\ IsNull(r.month_added)

----------------------------------------------------------------------------
(* C10: uniqueness of the rows of the returned table *)

\* C10 as stated: the table clean_data returns has no two equal rows.
C10_AsStated ==
    Did(6) =>
        \A i, j \in DOMAIN After(6).rows :
            i # j => After(6).rows[i] # After(6).rows[j]

\* two values that clipping to [lo, hi] makes equal
ClipTogether(x, y, lo, hi) ==
    \/ x = y
    \/ x <= lo /\ y <= lo
    \/ x >= hi /\ y >= hi
    \/ lo = hi

\* C10 as amended: no two rows are equal right after deduplication, and
\* clipping keeps every row, but it can make rows equal: two rows of the
\* returned table are equal exactly when, before clipping, they agreed in
\* every column that is not clipped and, in every clipped column, had equal
\* values or values at or beyond the same fence (or the two fences
\* coincide).
C10_EqualOnlyByClipping ==
    Did(6) =>
        LET before == After(5)
            after == After(6)
            num == NumericCols(before)
            fence == [c \in num |->
                LET Q1 == Quantile(Column(before, c), 1)
                    Q3 == Quantile(Column(before, c), 3)
                IN  [lo |-> Q1.v - (3 * (Q3.v - Q1.v)) \div 2,
                     hi |-> Q3.v + (3 * (Q3.v - Q1.v)) \div 2]]
        IN  /\ Len(after.rows) = Len(before.rows)
            /\ \A i, j \in DOMAIN before.rows :
                  i < j =>
                     /\ before.rows[i] # before.rows[j]
                     /\ after.rows[i] = after.rows[j] <=>
                           \A c \in before.cols :
                               \/ before.rows[i][c] = before.rows[j][c]
                               \/ /\ c \in num
                                  /\ ~IsNull(before.rows[i][c])
                                  /\ ~IsNull(before.rows[j][c])
                                  /\ ClipTogether(before.rows[i][c].v,
                                                  before.rows[j][c].v,
                                                  fence[c].lo, fence[c].hi)

\* a returned table with two equal rows
C10_Witness ==
    /\ Did(6)
    /\ \E i, j \in DOMAIN After(6).rows :
          i # j /\ After(6).rows[i] = After(6).rows[j]

====
